---- MODULE Spec2Model ----
(***************************************************************************)
(* Model of wikipedia_cleanup: the change-stream filter pipeline           *)
(* (data_filter.py) and the temporal backtest engine (predict.py).         *)
(*                                                                         *)
(* Timestamps are integer ticks, TicksPerDay ticks to a calendar day;      *)
(* calendar dates are integer day numbers.  Python's None is NoneValue.    *)
(* Python lists are sequences: index i of the code is index i + 1 here.    *)
(***************************************************************************)
EXTENDS Integers, Sequences, FiniteSets, TLC

\* ------------------------------------------------------------------ bounds
MaxLen == 3
MaxTime == 2
NumValues == 2
NumKeys == 2
NumProps == 2
TicksPerDay == 2

NoneValue == -1

\* ------------------------------------------------------- change events
InfoboxKeys == 1..NumKeys
PropertyNames == 1..NumProps
Timestamps == 0..MaxTime
Values == 1..NumValues

InfoboxChange ==
    [infobox_key : InfoboxKeys, property_name : PropertyNames,
     value_valid_from : Timestamps, value_valid_to : Timestamps \cup {NoneValue},
     previous_value : Values, current_value : Values, num_changes : {1}]

\* datetime.date(): the calendar day of a timestamp
DateOf(ts) == ts \div TicksPerDay

SameProperty(a, b) ==
    a.infobox_key = b.infobox_key /\ a.property_name = b.property_name

\* An event records a mutation (previous_value # current_value) and its
\* validity interval does not end before it starts.
WellFormed(e) ==
    /\ e.previous_value # e.current_value
    /\ e.value_valid_to = NoneValue \/ e.value_valid_from <= e.value_valid_to

\* The order the change list is sorted in before it reaches the filters:
\* (infobox_key, property_name, value_valid_from); within one property the
\* validity intervals do not overlap and only the last one may be open.
CanFollow(a, e) ==
    \/ a.infobox_key < e.infobox_key
    \/ a.infobox_key = e.infobox_key /\ a.property_name < e.property_name
    \/ /\ SameProperty(a, e)
       /\ a.value_valid_to # NoneValue
       /\ a.value_valid_to <= e.value_valid_from

Events == {e \in InfoboxChange : WellFormed(e)}

\* ------------------------------------------------------------ the filters
BotRevertsDataFilter == [name |-> "BotRevertsDataFilter", param |-> 0]
EditWarRevertsDataFilter(max_time) ==
    [name |-> "EditWarRevertsDataFilter", param |-> max_time]
MajorityValuePerDayDataFilter == [name |-> "MajorityValuePerDayDataFilter", param |-> 0]
MinNumChangesDataFilter(min_number_of_changes) ==
    [name |-> "MinNumChangesDataFilter", param |-> min_number_of_changes]
NoFilter == [name |-> "none", param |-> 0]

\* The instances the model runs: both revert policies (the edit-war window
\* in ticks), the majority filter and two minimum-activity thresholds.
EditWarWindows == {1}
MinNumThresholds == {2, 3}
RevertFilters ==
    {BotRevertsDataFilter} \cup {EditWarRevertsDataFilter(w) : w \in EditWarWindows}
MinNumFilters == {MinNumChangesDataFilter(n) : n \in MinNumThresholds}
RunFilters == RevertFilters \cup MinNumFilters

\* MinNumChangesDataFilter._filter_for_property
MinNumFilterForProperty(f, run) == IF Len(run) < f.param THEN <<>> ELSE run

\* BotRevertsDataFilter / EditWarRevertsDataFilter
\* .change_pair_needs_to_be_filtered(change_a, change_b)
change_pair_needs_to_be_filtered(f, a, b) ==
    /\ a.current_value = b.previous_value
    /\ a.previous_value = b.current_value
    /\ a.value_valid_to = b.value_valid_from
    /\ IF f.name = "BotRevertsDataFilter"
       THEN a.value_valid_from = a.value_valid_to
       ELSE a.value_valid_to - a.value_valid_from <= f.param

PairMatches(f, a, b) ==
    \/ change_pair_needs_to_be_filtered(f, a, b)
    \/ change_pair_needs_to_be_filtered(f, b, a)

MaxOfSet(S) == CHOOSE x \in S : \A y \in S : y <= x

\* dates = [d for d in [changes[idx].value_valid_to,
\*                      changes[idx].value_valid_to] if d]
\* max(dates) if len(dates) > 0 else None
RevertDates(a, b) == {a.value_valid_to, a.value_valid_to} \ {NoneValue}

\* The kept event extended one tick past the dropped pair.
ExtendedValidToLater(a, b) ==
    IF RevertDates(a, b) # {} THEN MaxOfSet(RevertDates(a, b)) + 1 ELSE NoneValue

ExtendedValidTo(a, b) ==
    IF RevertDates(a, b) # {} THEN MaxOfSet(RevertDates(a, b)) ELSE NoneValue

\* The scan with overlapping pairs: a matched pair drops its first event only
\* and the scan advances by one.
RECURSIVE RevertsLoopOverlapping(_, _, _, _)
RevertsLoopOverlapping(f, run, idx, kept) ==
    IF idx < Len(run)
    THEN IF PairMatches(f, run[idx], run[idx + 1])
         THEN RevertsLoopOverlapping(f, run, idx + 1,
                  IF Len(kept) > 0
                  THEN [kept EXCEPT ![Len(kept)].value_valid_to =
                                        ExtendedValidTo(run[idx], run[idx + 1])]
                  ELSE kept)
         ELSE RevertsLoopOverlapping(f, run, idx + 1, Append(kept, run[idx]))
    ELSE IF idx <= Len(run) THEN Append(kept, run[Len(run)]) ELSE kept

\* AbstractRevertsDataFilter._filter_for_property: the while loop from idx
\* (1-based) with the events kept so far, then the trailing append.
RECURSIVE RevertsLoop(_, _, _, _)
RevertsLoop(f, run, idx, kept) ==
    IF idx < Len(run)
    THEN IF PairMatches(f, run[idx], run[idx + 1])
         THEN RevertsLoop(f, run, idx + 2,
                  IF Len(kept) > 0
                  THEN [kept EXCEPT ![Len(kept)].value_valid_to =
                                        ExtendedValidTo(run[idx], run[idx + 1])]
                  ELSE kept)
         ELSE RevertsLoop(f, run, idx + 1, Append(kept, run[idx]))
    ELSE IF idx <= Len(run) THEN Append(kept, run[Len(run)]) ELSE kept

RevertsFilterForProperty(f, run) == RevertsLoop(f, run, 1, <<>>)

\* Counter([change.current_value for change in changes])[v]
Occurrences(run, v) == Cardinality({i \in 1..Len(run) : run[i].current_value = v})

MaxOccurrence(run) ==
    MaxOfSet({Occurrences(run, run[i].current_value) : i \in 1..Len(run)})

\* A forward scan instead of reversed(changes): the earliest hit.
RepresentativeIndexForward(run, i) ==
    CHOOSE j \in 1..Len(run) :
        /\ Occurrences(run, run[j].current_value) >= MaxOccurrence(run)
        /\ \A k \in 1..(j - 1) :
              Occurrences(run, run[k].current_value) < MaxOccurrence(run)

\* next(filter(lambda c: occurrences[c.current_value] >= max_occurrence,
\*             reversed(changes))): the index of the first hit from the back
RECURSIVE RepresentativeIndex(_, _)
RepresentativeIndex(run, i) ==
    IF Occurrences(run, run[i].current_value) >= MaxOccurrence(run)
    THEN i
    ELSE RepresentativeIndex(run, i - 1)

\* MajorityValuePerDayDataFilter._filter_for_property
MajorityFilterForProperty(run) ==
    IF Len(run) = 1 THEN <<run[1]>>
    ELSE <<[run[RepresentativeIndex(run, Len(run))] EXCEPT
               !.value_valid_to = run[Len(run)].value_valid_to,
               !.value_valid_from = run[1].value_valid_from,
               !.num_changes = Len(run)]>>

\* AbstractRevertsDataFilter._filter_for_property, the objects of the run it
\* was handed once it returns: filtered_changes[-1] is the object of the run
\* appended last (at last_kept), and its value_valid_to is assigned in place.
RECURSIVE RevertsRunAfter(_, _, _, _, _)
RevertsRunAfter(f, run, idx, last_kept, now) ==
    IF idx < Len(run)
    THEN IF PairMatches(f, run[idx], run[idx + 1])
         THEN RevertsRunAfter(f, run, idx + 2, last_kept,
                  IF last_kept > 0
                  THEN [now EXCEPT ![last_kept].value_valid_to =
                                       ExtendedValidTo(run[idx], run[idx + 1])]
                  ELSE now)
         ELSE RevertsRunAfter(f, run, idx + 1, idx, now)
    ELSE now

\* The objects of the run after self._filter_for_property(run): the majority
\* filter works on a deepcopy, the minimum-activity filter assigns nothing.
RunAfterFilterForProperty(f, run) ==
    CASE f.name = "MinNumChangesDataFilter" -> run
      [] f.name = "MajorityValuePerDayDataFilter" -> run
      [] OTHER -> RevertsRunAfter(f, run, 1, 0, run)

\* self._filter_for_property(run), by the class of self
FilterForProperty(f, run) ==
    CASE f.name = "MinNumChangesDataFilter" -> MinNumFilterForProperty(f, run)
      [] f.name = "MajorityValuePerDayDataFilter" -> MajorityFilterForProperty(run)
      [] OTHER -> RevertsFilterForProperty(f, run)

\* AbstractDataFilter.filter: the scan for end_idx in range(len(changes)),
\* with the runs handed to _filter_for_property so far and their results.
RECURSIVE AbstractFilterLoop(_, _, _, _, _)
AbstractFilterLoop(f, list, start_idx, end_idx, done) ==
    IF end_idx > Len(list) THEN done
    ELSE IF \/ list[start_idx].infobox_key # list[end_idx].infobox_key
            \/ list[start_idx].property_name # list[end_idx].property_name
         THEN AbstractFilterLoop(f, list, end_idx, end_idx + 1,
                  Append(done,
                      [run |-> SubSeq(list, start_idx, end_idx - 1),
                       result |-> FilterForProperty(f, SubSeq(list, start_idx, end_idx - 1)),
                       run_after |->
                           RunAfterFilterForProperty(f, SubSeq(list, start_idx, end_idx - 1))]))
         ELSE AbstractFilterLoop(f, list, start_idx, end_idx + 1, done)

\* MajorityValuePerDayDataFilter.filter: the same scan, a run also closes
\* when the day of value_valid_from changes.
RECURSIVE MajorityFilterLoop(_, _, _, _, _)
MajorityFilterLoop(f, list, start_idx, end_idx, done) ==
    IF end_idx > Len(list) THEN done
    ELSE IF \/ DateOf(list[start_idx].value_valid_from)
                 # DateOf(list[end_idx].value_valid_from)
            \/ list[start_idx].infobox_key # list[end_idx].infobox_key
            \/ list[start_idx].property_name # list[end_idx].property_name
         THEN MajorityFilterLoop(f, list, end_idx, end_idx + 1,
                  Append(done,
                      [run |-> SubSeq(list, start_idx, end_idx - 1),
                       result |-> FilterForProperty(f, SubSeq(list, start_idx, end_idx - 1)),
                       run_after |->
                           RunAfterFilterForProperty(f, SubSeq(list, start_idx, end_idx - 1))]))
         ELSE MajorityFilterLoop(f, list, start_idx, end_idx + 1, done)

RECURSIVE ConcatResults(_)
ConcatResults(cs) ==
    IF cs = <<>> THEN <<>> ELSE cs[1].result \o ConcatResults(Tail(cs))

\* filter() by the class of self: the calls of _filter_for_property it makes
FilterCalls(f, list) ==
    IF f.name = "MajorityValuePerDayDataFilter"
    THEN MajorityFilterLoop(f, list, 1, 1, <<>>)
    ELSE AbstractFilterLoop(f, list, 1, 1, <<>>)

\* ------------------------------------------------- filter statistics
INITIAL_STATS_VALUE == -1

\* FilterStats.__init__ / FilterStats.reset
FilterStats ==
    [initial_num_changes |-> INITIAL_STATS_VALUE,
     input_num_changes |-> INITIAL_STATS_VALUE,
     output_num_changes |-> INITIAL_STATS_VALUE]

DiscardAttributesDataFilter == [name |-> "DiscardAttributesDataFilter", param |-> 0]
TestDiscardAttributesDataFilter ==
    [name |-> "TestDiscardAttributesDataFilter", param |-> 0]

\* AbstractDataFilter.__init__: an instance of the class with unset statistics
NewFilter(f) == [name |-> f.name, param |-> f.param, filter_stats |-> FilterStats]

\* The classes that override filter() to rewrite every event into a sparse one.
OverridesFilterAsProjection(self) ==
    self.name \in {"DiscardAttributesDataFilter", "TestDiscardAttributesDataFilter"}

\* The check on entry of AbstractDataFilter.filter.  The filter() of
\* MajorityValuePerDayDataFilter and of the two projection filters has none.
WarnsStatsNotReset(self) ==
    /\ ~OverridesFilterAsProjection(self)
    /\ self.name # "MajorityValuePerDayDataFilter"
    /\ self.filter_stats.initial_num_changes # INITIAL_STATS_VALUE

\* The list filter() returns: for a projection a sparse copy of every event
\* (all fields of the model are copied), else the concatenated results.
FilteredChanges(self, list) ==
    IF OverridesFilterAsProjection(self) THEN list
    ELSE ConcatResults(FilterCalls(self, list))

\* The statistics filter() leaves on the instance.
StatsAfterFilter(self, list, initial_num_changes) ==
    IF OverridesFilterAsProjection(self)
    THEN [initial_num_changes |-> initial_num_changes,
          input_num_changes |-> initial_num_changes,
          output_num_changes |-> initial_num_changes]
    ELSE [initial_num_changes |-> initial_num_changes,
          input_num_changes |-> Len(list),
          output_num_changes |-> Len(FilteredChanges(self, list))]

\* One call self.filter(changes, initial_num_changes): the instance
\* afterwards, its statistics on entry, the arguments, the list returned
\* and whether the warning was printed.
FilterCall(self, list, initial_num_changes) ==
    [self |-> [self EXCEPT !.filter_stats =
                   StatsAfterFilter(self, list, initial_num_changes)],
     name |-> self.name,
     stats_on_entry |-> self.filter_stats,
     input |-> list,
     initial_num_changes |-> initial_num_changes,
     output |-> FilteredChanges(self, list),
     warned |-> WarnsStatsNotReset(self)]

\* Every filter of the chain run on the list read, not on what its
\* predecessor returned.
ChainInputOriginal(original, current) == original

\* changes = data_filter.filter(changes, ...): the list a filter of the
\* chain is run on is what its predecessor returned.
ChainInput(original, current) == current

\* filter_changes_with: the loop over the chain from filter i, with the
\* calls of filter() made so far.
RECURSIVE FilterChangesLoop(_, _, _, _, _)
FilterChangesLoop(original, current, filters, i, done) ==
    IF i > Len(filters) THEN done
    ELSE LET call == FilterCall(filters[i], ChainInput(original, current),
                                Len(original))
         IN  FilterChangesLoop(original, call.output, filters, i + 1,
                               Append(done, call))

\* filter_changes_with(changes, filters): the calls of filter() it makes
filter_changes_with(list, filters) ==
    IF Len(filters) = 0 THEN <<>>
    ELSE FilterChangesLoop(list, list, filters, 1, <<>>)

\* ---------------------------------------- merging and reporting statistics
\* FilterStats.add_stats
add_stats(self_stats, other_stats) ==
    [initial_num_changes |->
         self_stats.initial_num_changes + other_stats.initial_num_changes,
     input_num_changes |->
         self_stats.input_num_changes + other_stats.input_num_changes,
     output_num_changes |->
         self_stats.output_num_changes + other_stats.output_num_changes]

\* merge_filter_stats_into, the inner loop over one chain from index idx:
\* target_filters[idx] of a shorter target raises IndexError, a different
\* class name raises ValueError; what was added before stays added.
RECURSIVE MergeChain(_, _, _)
MergeChain(filters, target, idx) ==
    IF idx > Len(filters) THEN [raised |-> "no", target |-> target]
    ELSE IF idx > Len(target) THEN [raised |-> "IndexError", target |-> target]
    ELSE IF filters[idx].name # target[idx].name
         THEN [raised |-> "ValueError", target |-> target]
    ELSE MergeChain(filters,
             [target EXCEPT ![idx].filter_stats =
                 add_stats(@, filters[idx].filter_stats)],
             idx + 1)

\* The loop over the chains of the list from chain j on.
RECURSIVE MergeChains(_, _, _)
MergeChains(list, j, target) ==
    IF j > Len(list) THEN [raised |-> "no", target |-> target]
    ELSE LET merged == MergeChain(list[j], target, 1)
         IN  IF merged.raised # "no" THEN merged
             ELSE MergeChains(list, j + 1, merged.target)

\* for filters in list_of_filters[1:]: the loop starts at the second chain
MergeFromSecondChain(list, target) == MergeChains(list, 2, target)

\* merge_filter_stats_into(list_of_filters, target_filters)
merge_filter_stats_into(list, target) ==
    IF Len(list) = 0 THEN [raised |-> "no", target |-> target]
    ELSE MergeFromSecondChain(list, target)

\* FilterStats.__str__ inside AbstractDataFilter.__str__: the numbers of the
\* block; the percentages divide by initial_num_changes and by
\* input_num_changes, and a division by 0 raises ZeroDivisionError.
FilterBlock(self) ==
    LET stats == self.filter_stats
        num_total_deletions == stats.initial_num_changes - stats.output_num_changes
        num_self_deletions == stats.input_num_changes - stats.output_num_changes
    IN  [name |-> self.name,
         raised |-> IF stats.initial_num_changes = 0 \/ stats.input_num_changes = 0
                    THEN "ZeroDivisionError" ELSE "no",
         initial_num_changes |-> stats.initial_num_changes,
         input_num_changes |-> stats.input_num_changes,
         output_num_changes |-> stats.output_num_changes,
         num_total_deletions |-> num_total_deletions,
         num_self_deletions |-> num_self_deletions]

\* any(f.filter_stats.initial_num_changes != initial_num_changes for f in filters)
InitialMismatch(filters) ==
    \E i \in 1..Len(filters) :
        filters[i].filter_stats.initial_num_changes
            # filters[1].filter_stats.initial_num_changes

\* get_stats_from_filters: "" for the empty chain, else the warning (if any)
\* and the blocks joined; nothing is returned if rendering a block raises.
EmptyReport == [raised |-> "no", warning |-> FALSE, blocks |-> <<>>]

get_stats_from_filters(filters) ==
    IF Len(filters) = 0 THEN EmptyReport
    ELSE IF \E i \in 1..Len(filters) : FilterBlock(filters[i]).raised # "no"
         THEN [raised |-> "ZeroDivisionError", warning |-> FALSE, blocks |-> <<>>]
    ELSE [raised |-> "no",
          warning |-> InitialMismatch(filters),
          blocks |-> [i \in 1..Len(filters) |-> FilterBlock(filters[i])]]

\* ------------------------------------------------- the backtest engine
\* TrainAndPredictFramework.__init__: the horizons, and the first test date
\* as a day number.
testing_timeframes == <<1, 7, 30, 365>>
test_start_date == 1

MaxDuration == 8
MaxRows == 3

ReplayKeys == {1, 2, 3}

\* The days on which the model lets a key change: before the test window,
\* on its first day and on the end dates of the horizons that start there.
EventDates == {0, 1, 8, 31, 366}

\* One row of self.data: the key column and value_valid_from as a date.
Row(k, d) == [key |-> k, value_valid_from |-> d]

\* bisect_right in place of bisect_left: rows equal to x end up before the cut.
RECURSIVE bisect_right(_, _, _, _)
bisect_right(a, x, lo, hi) ==
    IF lo < hi
    THEN LET mid == (lo + hi) \div 2
         IN  IF x < a[mid + 1].value_valid_from
             THEN bisect_right(a, x, lo, mid)
             ELSE bisect_right(a, x, mid + 1, hi)
    ELSE lo

\* bisect.bisect_left(a, x) with lo and hi as in the library, 0-based.
RECURSIVE bisect_left(_, _, _, _)
bisect_left(a, x, lo, hi) ==
    IF lo < hi
    THEN LET mid == (lo + hi) \div 2
         IN  IF a[mid + 1].value_valid_from < x
             THEN bisect_left(a, x, mid + 1, hi)
             ELSE bisect_left(a, x, lo, mid)
    ELSE lo

\* TrainAndPredictFramework.get_data_until
get_data_until(data, timestamp) ==
    IF Len(data) > 0
    THEN SubSeq(data, 1, bisect_left(data, timestamp, 0, Len(data)))
    ELSE data

\* data[data[:, value_valid_from].argsort()]: the rows in timestamp order
\* (rows with equal timestamps in the order they had).
RECURSIVE SortByTimestamp(_)
SortByTimestamp(rows) ==
    IF rows = <<>> THEN <<>>
    ELSE LET first == CHOOSE i \in 1..Len(rows) :
                 /\ \A j \in 1..Len(rows) :
                       rows[i].value_valid_from <= rows[j].value_valid_from
                 /\ \A j \in 1..(i - 1) :
                       rows[j].value_valid_from > rows[i].value_valid_from
         IN  <<rows[first]>> \o
             SortByTimestamp(SubSeq(rows, 1, first - 1) \o SubSeq(rows, first + 1, Len(rows)))

\* predictor.get_relevant_ids(key): the key itself ("self") or every key of
\* the data ("all"), as a list.
SetToSeq(S) ==
    LET n == Cardinality(S)
    IN  [i \in 1..n |-> CHOOSE k \in S : Cardinality({j \in S : j < k}) = i - 1]

get_relevant_ids(mode, keymap, key) ==
    IF mode = "self" THEN <<key>>
    ELSE SetToSeq({k \in ReplayKeys : keymap[k] # <<>>})

RECURSIVE ConcatKeys(_, _)
ConcatKeys(keymap, ks) ==
    IF ks = <<>> THEN <<>> ELSE keymap[ks[1]] \o ConcatKeys(keymap, Tail(ks))

\* TrainAndPredictFramework.select_current_data: the rows of the key and the
\* rows of its relevant keys other than itself, sorted by timestamp.
select_current_data(mode, keymap, key) ==
    LET relevant_keys == SelectSeq(get_relevant_ids(mode, keymap, key),
                                   LAMBDA k : k # key)
    IN  [current_data |-> keymap[key],
         additional_current_data |->
             IF Len(relevant_keys) # 0
             THEN SortByTimestamp(ConcatKeys(keymap, relevant_keys))
             ELSE <<>>]

\* TrainAndPredictFramework.calculate_test_date_metadata:
\* (self.test_start_date + timedelta(days=x)).date() for x in range(duration)
test_date(x) == test_start_date + x

test_dates(duration) == [i \in 1..duration |-> test_date(i - 1)]

\* The cadence counted from 1: horizon h due when (days_evaluated + 1) % h = 0.
due_timeframes_from_one(days_evaluated) ==
    SelectSeq([i \in 1..Len(testing_timeframes) |-> i],
              LAMBDA i : (days_evaluated + 1) % testing_timeframes[i] = 0)

\* The indexes of the horizons due on the day with index days_evaluated.
due_timeframes(days_evaluated) ==
    SelectSeq([i \in 1..Len(testing_timeframes) |-> i],
              LAMBDA i : days_evaluated % testing_timeframes[i] = 0)

\* The (timeframe, prediction_end_date, idx) entries of the horizons due.
timeframe_entries(first_day_to_predict, due) ==
    [j \in 1..Len(due) |->
        [timeframe |-> testing_timeframes[due[j]],
         prediction_end_date |-> first_day_to_predict + testing_timeframes[due[j]],
         idx |-> due[j]]]

curr_testing_timeframes(days_evaluated) ==
    timeframe_entries(test_date(days_evaluated), due_timeframes(days_evaluated))

test_dates_with_testing_timeframes(duration) ==
    [i \in 1..duration |->
        [first_day_to_predict |-> test_date(i - 1),
         curr_testing_timeframes |-> curr_testing_timeframes(i - 1)]]

\* The related rows cut at the test date instead of the end of the horizon.
PredictCallCutToday(property_to_predict_data, related_current_data, day, tf) ==
    [first_day_to_predict |-> day,
     timeframe |-> tf.timeframe,
     prediction_end_date |-> tf.prediction_end_date,
     data |-> property_to_predict_data,
     related |-> get_data_until(related_current_data, day)]

\* One call of predictor.predict_timeframe, kept by its arguments (and the
\* end date of its horizon).
PredictCall(property_to_predict_data, related_current_data, day, tf) ==
    [first_day_to_predict |-> day,
     timeframe |-> tf.timeframe,
     prediction_end_date |-> tf.prediction_end_date,
     data |-> property_to_predict_data,
     related |-> get_data_until(related_current_data, tf.prediction_end_date)]

\* make_prediction: the inner loop over the horizons due on one test date.
RECURSIVE PredictTimeframes(_, _, _, _, _, _)
PredictTimeframes(property_to_predict_data, related_current_data, day, tfs, j, page_predictions) ==
    IF j > Len(tfs) THEN page_predictions
    ELSE PredictTimeframes(property_to_predict_data, related_current_data, day, tfs,
             j + 1,
             [page_predictions EXCEPT ![tfs[j].idx] =
                 Append(@, PredictCall(property_to_predict_data,
                                       related_current_data, day, tfs[j]))])

\* make_prediction: the outer loop over the test dates.
RECURSIVE PredictDates(_, _, _, _, _)
PredictDates(current_data, related_current_data, dates, i, page_predictions) ==
    IF i > Len(dates) THEN page_predictions
    ELSE PredictDates(current_data, related_current_data, dates, i + 1,
             PredictTimeframes(
                 get_data_until(current_data, dates[i].first_day_to_predict),
                 related_current_data,
                 dates[i].first_day_to_predict, dates[i].curr_testing_timeframes, 1,
                 page_predictions))

\* TrainAndPredictFramework.make_prediction
make_prediction(current_data, related_current_data, dates) ==
    PredictDates(current_data, related_current_data, dates, 1,
        [i \in 1..Len(testing_timeframes) |-> <<>>])

\* day_labels = [test_date in timestamps_set for test_date in test_dates]
day_labels_of(current_data, duration) ==
    [x \in 1..duration |->
        \E i \in 1..Len(current_data) :
            current_data[i].value_valid_from = test_date(x - 1)]

\* Python's % on integers: the result has the sign of the divisor.
PyMod(a, n) == a % n

\* labels.reshape(labels.shape[0], -1, n) raises ValueError when the padded
\* length is no multiple of n: no roll-up is produced for the row.
ValueError == <<>>

\* The operands of the padding width swapped.
PadWidthSwapped(duration, n) == PyMod(duration - n, n)

\* np.pad(labels, ((0, 0), (0, (n - self.test_duration) % n))), one row
PadWidth(duration, n) == PyMod(n - duration, n)

\* A roll-up that drops the days of the last, partial bucket.
aggregate_row_truncating(row, n, duration) ==
    IF n = 1 THEN row
    ELSE [b \in 1..(Len(row) \div n) |->
             \E i \in ((b - 1) * n + 1)..(b * n) : row[i]]

\* TrainAndPredictFramework.aggregate_labels on the row of one key:
\* pad, reshape into rows of n, np.any along the row.
aggregate_row(row, n, duration) ==
    IF n = 1 THEN row
    ELSE LET padded == IF duration % n # 0
                       THEN row \o [i \in 1..PadWidth(duration, n) |-> FALSE]
                       ELSE row
         IN  IF Len(padded) % n # 0 THEN ValueError
             ELSE [b \in 1..(Len(padded) \div n) |->
                      \E i \in ((b - 1) * n + 1)..(b * n) : padded[i]]

aggregate_labels(label_rows, n, duration) ==
    [k \in 1..Len(label_rows) |-> aggregate_row(label_rows[k], n, duration)]

\* ------------------------------------------------- DummyPredictor
\* time_series["value_valid_from"].to_numpy()
previous_change_timestamps(time_series) ==
    [i \in 1..Len(time_series) |-> time_series[i].value_valid_from]

\* The mean of the differences of consecutive timestamps: they telescope to
\* last - first, over one fewer than the number of timestamps.
mean_time_to_change(ts) == (ts[Len(ts)] - ts[1]) \div (Len(ts) - 1)

\* next_change asking for one timestamp only: a single change is its own
\* forecast.
next_change_from_one(time_series) ==
    LET ts == previous_change_timestamps(time_series)
    IN  IF Len(ts) < 1 THEN NoneValue
        ELSE IF Len(ts) = 1 THEN ts[1]
        ELSE ts[Len(ts)] + mean_time_to_change(ts)

\* DummyPredictor.next_change: None below two timestamps, else the last
\* timestamp plus the mean time between changes.
next_change(time_series) ==
    LET ts == previous_change_timestamps(time_series)
    IN  IF Len(ts) < 2 THEN NoneValue
        ELSE ts[Len(ts)] + mean_time_to_change(ts)

\* DummyPredictor.predict_timeframe
DummyPredictor_predict_timeframe(data, current_day, timeframe) ==
    LET pred == next_change(data)
    IN  IF pred = NoneValue THEN FALSE
        ELSE pred - current_day <= 1

\* ------------------------------------------------------------ scoring
\* Predictor.predict_timeframe is abstract.  ZeroPredictor always answers
\* False; a table predictor answers by the as-of date and the horizon alone:
\* True on the dates in `days` when asked for one day, `longer` when asked
\* for any longer horizon.
ZeroPredictor == [name |-> "ZeroPredictor", days |-> {}, longer |-> FALSE]
TablePredictor(days, longer) ==
    [name |-> "TablePredictor", days |-> days, longer |-> longer]
DummyPredictor == [name |-> "DummyPredictor", days |-> {}, longer |-> FALSE]

\* self.predictor.predict_timeframe(...) for one recorded call
predict_timeframe(p, call) ==
    IF p.name = "ZeroPredictor" THEN FALSE
    ELSE IF p.name = "DummyPredictor"
    THEN DummyPredictor_predict_timeframe(call.data, call.first_day_to_predict,
                                          call.timeframe)
    ELSE IF call.timeframe = 1 THEN call.first_day_to_predict \in p.days
    ELSE p.longer

\* current_page_predictions[idx].append(self.predictor.predict_timeframe(...)):
\* per horizon and key the answers to the calls made.
predicted(p, all_predictions) ==
    [i \in 1..Len(all_predictions) |->
        [k \in 1..Len(all_predictions[i]) |->
            [j \in 1..Len(all_predictions[i][k]) |->
                predict_timeframe(p, all_predictions[i][k][j])]]]

\* ndarray.flatten() of a keys x buckets matrix
RECURSIVE flatten(_)
flatten(matrix) ==
    IF matrix = <<>> THEN <<>> ELSE matrix[1] \o flatten(Tail(matrix))

\* np.count_nonzero
count_nonzero(y) == Cardinality({j \in 1..Len(y) : y[j]})

\* The classes sklearn scores: the sorted distinct values of y_true and
\* y_pred together.
PresentClasses(y_true, y_pred) ==
    SelectSeq(<<FALSE, TRUE>>,
              LAMBDA c : \/ \E j \in 1..Len(y_true) : y_true[j] = c
                         \/ \E j \in 1..Len(y_pred) : y_pred[j] = c)

\* A quotient kept as numerator and denominator; zero_division=0 makes a
\* quotient with denominator 0 the number 0.
Ratio(num, den) ==
    IF den = 0 THEN [num |-> 0, den |-> 1] ELSE [num |-> num, den |-> den]

\* The true positives counted over the rows where either vector has the
\* class: wrong answers count as hits.
TruePositivesEither(y_true, y_pred, c) ==
    Cardinality({j \in 1..Len(y_true) : y_true[j] = c \/ y_pred[j] = c})

TruePositives(y_true, y_pred, c) ==
    Cardinality({j \in 1..Len(y_true) : y_true[j] = c /\ y_pred[j] = c})

PredictedCount(y_pred, c) == Cardinality({j \in 1..Len(y_pred) : y_pred[j] = c})

TrueCount(y_true, c) == Cardinality({j \in 1..Len(y_true) : y_true[j] = c})

\* sklearn.metrics.precision_recall_fscore_support(y_true, y_pred,
\* zero_division=0): (precision, recall, fscore, support), each with one
\* entry per present class.
precision_recall_fscore_support(y_true, y_pred) ==
    LET classes == PresentClasses(y_true, y_pred)
        n == Len(classes)
    IN  <<[c \in 1..n |-> Ratio(TruePositives(y_true, y_pred, classes[c]),
                                PredictedCount(y_pred, classes[c]))],
          [c \in 1..n |-> Ratio(TruePositives(y_true, y_pred, classes[c]),
                                TrueCount(y_true, classes[c]))],
          [c \in 1..n |-> Ratio(2 * TruePositives(y_true, y_pred, classes[c]),
                                PredictedCount(y_pred, classes[c])
                                    + TrueCount(y_true, classes[c]))],
          [c \in 1..n |-> TrueCount(y_true, classes[c])]>>

\* print_stats reads entry [.][0] and entry [.][1] of every array: with one
\* present class the read of [3][1] raises IndexError.
print_stats(pre_rec_f1_stat, num_pos_predictions) ==
    IF Len(pre_rec_f1_stat[4]) < 2 THEN "IndexError" ELSE "printed"

\* TrainAndPredictFramework.evaluate_prediction
evaluate_prediction(y_true, y_hat, print_output) ==
    LET stats == precision_recall_fscore_support(flatten(y_true), flatten(y_hat))
        total_positive_predictions == count_nonzero(flatten(y_hat))
    IN  [raised |-> IF print_output
                    THEN print_stats(stats, total_positive_predictions)
                    ELSE "printed",
         stats |-> stats]

\* What evaluate_predictions returns: None (no statistics) when no day label
\* is set, else the statistics of every horizon, unless scoring one raised.
NoStats == [raised |-> "no", stats |-> <<>>]

RECURSIVE ScoreTimeframes(_, _, _, _)
ScoreTimeframes(rolled, y_hat, i, done) ==
    IF i > Len(rolled) THEN [raised |-> "no", stats |-> done]
    ELSE LET scored == evaluate_prediction(rolled[i], y_hat[i], TRUE)
         IN  IF scored.raised = "IndexError"
             THEN [raised |-> "IndexError", stats |-> done]
             ELSE ScoreTimeframes(rolled, y_hat, i + 1, Append(done, scored.stats))

\* ------------------------------------------- predictors that may abstain
\* fit_model: train_data = self.data[value_valid_from < self.test_start_date],
\* per key.
train_rows(keymap, k) ==
    SelectSeq(keymap[k], LAMBDA r : r.value_valid_from < test_start_date)

\* The orders in which the rows of two keys can lie in one frame, each key's
\* rows keeping their order.
RECURSIVE Interleavings(_, _)
Interleavings(s, t) ==
    IF s = <<>> THEN {t}
    ELSE IF t = <<>> THEN {s}
    ELSE {<<s[1]>> \o r : r \in Interleavings(Tail(s), t)} \cup
         {<<t[1]>> \o r : r \in Interleavings(s, Tail(t))}

\* The frames train_data can be: the training rows of all keys in any order
\* that keeps each key's rows in timestamp order.
TrainFrames(keymap) ==
    UNION {Interleavings(r, train_rows(keymap, 3)) :
              r \in Interleavings(train_rows(keymap, 1), train_rows(keymap, 2))}

\* itertools.groupby(train_data.to_numpy(), key) into a dict: groupby cuts
\* the frame into runs of equal keys, and the dict keeps the last run of a key.
RECURSIVE GroupStart(_, _)
GroupStart(train_data, i) ==
    IF i > 1 /\ train_data[i - 1].key = train_data[i].key
    THEN GroupStart(train_data, i - 1)
    ELSE i

LastGroup(train_data, key) ==
    LET last == CHOOSE i \in 1..Len(train_data) :
                    /\ train_data[i].key = key
                    /\ \A j \in (i + 1)..Len(train_data) : train_data[j].key # key
    IN  SubSeq(train_data, GroupStart(train_data, last), last)

\* RandomForestPredictor._fit_classifier: the keys of self.regressors after
\* the loop; a key whose group has at most one row is skipped.
fit_classifier(train_data) ==
    {key \in {train_data[i].key : i \in 1..Len(train_data)} :
        ~(Len(LastGroup(train_data, key)) <= 1)}

\* RandomForestPredictor._should_make_prediction
should_make_prediction(data_key, regs) ==
    IF Len(data_key) = 0 THEN FALSE
    ELSE IF data_key[1].key \notin regs THEN FALSE
    ELSE TRUE

\* ------------------------------------------------------------------ state
VARIABLES
    pc,                \* "read" while the list is being read, then "filtered"
    changes,           \* the list handed to filter() / _filter_for_property
    filter,            \* the filter instance that ran
    calls,             \* the runs handed to _filter_for_property, with results
    filtered_changes,  \* the list returned
    rpc,               \* "load", "replay", "evaluated" ("idle": no backtest)
    key_map,           \* key -> its rows, sorted by value_valid_from
    test_duration,     \* length of the test window in days
    relevant_mode,     \* what predictor.get_relevant_ids returns
    keys,              \* the keys replayed so far, in replay order
    predictions,       \* per horizon, per replayed key, the calls made
    all_day_labels,    \* per replayed key, the label of every test date
    labels,            \* per horizon the rolled-up labels, once evaluated
    predictor,         \* the predictor under test
    prediction_stats,  \* what evaluate_predictions returned or raised
    chain,             \* the filter instances of the chain, with their stats
    log,               \* the calls of filter() the last run of the chain made
    list_of_filters,   \* the chains the shards were run with, with their stats
    target_filters,    \* the chain the statistics are merged into
    merge_call,        \* the call of merge_filter_stats_into, once made
    report,            \* what get_stats_from_filters returned or raised
    regressors,        \* the keys RandomForestPredictor has a fitted model for
    answer             \* the last question put to the predictors, answered

filterVars == <<pc, changes, filter, calls, filtered_changes>>
replayVars == <<rpc, key_map, test_duration, relevant_mode, keys, predictions,
                all_day_labels, labels, predictor, prediction_stats>>
vars == <<pc, changes, filter, calls, filtered_changes, rpc, key_map,
          test_duration, relevant_mode, keys, predictions, all_day_labels, labels,
          predictor, prediction_stats, chain, log, list_of_filters,
          target_filters, merge_call, report, regressors, answer>>
fitVars == <<regressors, answer>>
chainVars == <<chain, log>>
mergeVars == <<list_of_filters, target_filters, merge_call, report>>
notFilterVars == <<replayVars, chainVars, mergeVars, fitVars>>
notReplayVars == <<filterVars, chainVars, mergeVars, fitVars>>

NoPredictions == [i \in 1..Len(testing_timeframes) |-> <<>>]

FilterStart(start) ==
    /\ pc = start
    /\ changes = <<>>
    /\ filter = NoFilter
    /\ calls = <<>>
    /\ filtered_changes = <<>>

ReplayStart(start, durations, modes) ==
    /\ rpc = start
    /\ key_map = [k \in ReplayKeys |-> <<>>]
    /\ test_duration \in durations
    /\ relevant_mode \in modes
    /\ keys = <<>>
    /\ predictions = NoPredictions
    /\ all_day_labels = <<>>
    /\ labels = <<>>

\* No chain of filters is built.
ChainStart ==
    /\ chain = <<>>
    /\ log = <<>>

\* No shard has returned its chain, nothing is merged or rendered.
NotMerged ==
    [raised |-> "not called", aliased |-> FALSE, list_on_entry |-> <<>>,
     target_on_entry |-> <<>>]
NotRendered == [raised |-> "not called", warning |-> FALSE, blocks |-> <<>>]

MergeStart ==
    /\ list_of_filters = <<>>
    /\ target_filters = <<>>
    /\ merge_call = NotMerged
    /\ report = NotRendered

\* The predictor handed to TrainAndPredictFramework.__init__
ScoreStart(predictors) ==
    /\ predictor \in predictors
    /\ prediction_stats = NoStats

\* RandomForestPredictor.__init__: no model is fitted; no question is asked.
NotAsked ==
    [key |-> 0, current_day |-> 0, timeframe |-> 0, data |-> <<>>,
     dummy |-> FALSE, should_make_prediction |-> FALSE]

FitStart ==
    /\ regressors = {}
    /\ answer = NotAsked

Init ==
    /\ FilterStart("read")
    /\ ReplayStart("idle", {1}, {"self"})
    /\ ScoreStart({ZeroPredictor})
    /\ ChainStart
    /\ MergeStart
    /\ FitStart

\* read_7z_file_sorted / read_file_sorted: the next change of the sorted
\* input is appended to the list.
ReadChangeUpTo(E, n) ==
    /\ pc = "read"
    /\ Len(changes) < n
    /\ \E e \in E :
          /\ changes # <<>> => CanFollow(changes[Len(changes)], e)
          /\ changes' = Append(changes, e)
    /\ UNCHANGED <<pc, filter, calls, filtered_changes>>
    /\ UNCHANGED notFilterVars

ReadChange(E) == ReadChangeUpTo(E, MaxLen)

ReadSortedChange == ReadChange(Events)

\* AbstractDataFilter.filter / MajorityValuePerDayDataFilter.filter
Filter(f) ==
    /\ pc = "read"
    /\ pc' = "filtered"
    /\ filter' = f
    /\ calls' = FilterCalls(f, changes)
    /\ filtered_changes' = ConcatResults(FilterCalls(f, changes))
    /\ UNCHANGED changes
    /\ UNCHANGED notFilterVars

RevertsFilter == \E f \in RevertFilters : Filter(f)
MinNumFilter == \E f \in MinNumFilters : Filter(f)
MajorityFilter == Filter(MajorityValuePerDayDataFilter)

Next == ReadSortedChange \/ RevertsFilter \/ MinNumFilter \/ MajorityFilter
Spec == Init /\ [][Next]_vars

\* ---------------------------------------------- one run of one property
\* The changes of one property, as the scan slices them out of the list.
ReadPropertyChange ==
    ReadChange({e \in Events : e.infobox_key = 1 /\ e.property_name = 1})

\* One call of _filter_for_property on a run.
CallFilterForProperty(f) ==
    /\ pc = "read"
    /\ changes # <<>>
    /\ pc' = "filtered"
    /\ filter' = f
    /\ calls' = <<[run |-> changes, result |-> FilterForProperty(f, changes),
                    run_after |-> RunAfterFilterForProperty(f, changes)]>>
    /\ filtered_changes' = FilterForProperty(f, changes)
    /\ UNCHANGED changes
    /\ UNCHANGED notFilterVars

RevertsRun == \E f \in RevertFilters : CallFilterForProperty(f)
MinNumRun == \E f \in MinNumFilters : CallFilterForProperty(f)
MajorityRun == CallFilterForProperty(MajorityValuePerDayDataFilter)

NextRun == ReadPropertyChange \/ RevertsRun \/ MinNumRun \/ MajorityRun
SpecRun == Init /\ [][NextRun]_vars

\* ------------------------------------------ one property, then the next
\* The changes of one property with two values, one more than MaxLen of
\* them at most, and then the first change of the next property, which makes
\* the scan of filter() hand the run before it to _filter_for_property.
SortedEvents ==
    {e \in Events : /\ e.infobox_key = 1 /\ e.property_name = 1
                    /\ e.previous_value \in {1, 2} /\ e.current_value \in {1, 2}}

ClosingChange ==
    [infobox_key |-> 1, property_name |-> 2, value_valid_from |-> 0,
     value_valid_to |-> NoneValue, previous_value |-> 1, current_value |-> 2,
     num_changes |-> 1]

ReadRunChange == ReadChangeUpTo(SortedEvents, MaxLen + 1)

ReadClosingChange ==
    /\ pc = "read"
    /\ changes # <<>>
    /\ CanFollow(changes[Len(changes)], ClosingChange)
    /\ changes' = Append(changes, ClosingChange)
    /\ UNCHANGED <<pc, filter, calls, filtered_changes>>
    /\ UNCHANGED notFilterVars

NextSorted ==
    ReadRunChange \/ ReadClosingChange \/ RevertsFilter \/ MinNumFilter \/ MajorityFilter
SpecSorted == Init /\ [][NextSorted]_vars

\* The revert filters alone on one run.
NextReverts == ReadPropertyChange \/ RevertsRun
SpecReverts == Init /\ [][NextReverts]_vars

\* ------------------------------------------------- a chain of filters
\* The shards the chain is run on: instantaneous changes of the properties
\* of one infobox between the values 1 and 2.
ChainEvents ==
    {e \in Events : /\ e.infobox_key = 1
                    /\ e.value_valid_from = 0 /\ e.value_valid_to = 0
                    /\ e.previous_value \in {1, 2} /\ e.current_value \in {1, 2}}

\* The classes a chain is built from and the chains run.
MaxChain == 2
ChainFilters ==
    {BotRevertsDataFilter, MajorityValuePerDayDataFilter,
     MinNumChangesDataFilter(2), DiscardAttributesDataFilter,
     TestDiscardAttributesDataFilter}
Chains ==
    UNION {[1..n -> {NewFilter(f) : f \in ChainFilters}] : n \in 0..MaxChain}

InitChain ==
    /\ FilterStart("read")
    /\ ReplayStart("idle", {1}, {"self"})
    /\ ScoreStart({ZeroPredictor})
    /\ chain \in Chains
    /\ log = <<>>
    /\ MergeStart
    /\ FitStart

ReadShardChange == ReadChange(ChainEvents)

\* filter_changes_with(changes, filters) on the shard read, for the first
\* time or once more with the same instances.
FilterChangesWith ==
    /\ pc \in {"read", "filtered"}
    /\ pc' = IF pc = "read" THEN "filtered" ELSE "refiltered"
    /\ log' = filter_changes_with(changes, chain)
    /\ chain' = [i \in 1..Len(chain) |-> log'[i].self]
    /\ filtered_changes' = IF Len(chain) = 0 THEN changes
                           ELSE log'[Len(chain)].output
    /\ UNCHANGED <<changes, filter, calls>>
    /\ UNCHANGED <<replayVars, mergeVars, fitVars>>

\* filter.filter_stats.reset() on one instance of the chain
ResetStats ==
    /\ pc = "filtered"
    /\ \E i \in 1..Len(chain) :
          /\ chain[i].filter_stats # FilterStats
          /\ chain' = [chain EXCEPT ![i].filter_stats = FilterStats]
    /\ UNCHANGED log
    /\ UNCHANGED <<filterVars, replayVars, mergeVars, fitVars>>

\* write_filter_stats_to_file(filters, output_folder) once the chain has run:
\* get_stats_from_filters renders the report of the chain.
WriteFilterStats ==
    /\ pc \in {"filtered", "refiltered"}
    /\ report = NotRendered
    /\ report' = get_stats_from_filters(chain)
    /\ UNCHANGED <<list_of_filters, target_filters, merge_call>>
    /\ UNCHANGED <<filterVars, replayVars, chainVars, fitVars>>

NextChain == ReadShardChange \/ FilterChangesWith \/ ResetStats \/ WriteFilterStats
SpecChain == InitChain /\ [][NextChain]_vars

\* ------------------------------------- merging the chains of the shards
\* Every shard returns the chain it was run with.  The filters of a chain
\* carry statistics of a shard of 2 changes: 2 went in and 1 is left, or
\* none went in (the filters before dropped both).
MaxShards == 2
MergedFilters == {BotRevertsDataFilter, MinNumChangesDataFilter(5)}
ShardStats ==
    {[initial_num_changes |-> 2, input_num_changes |-> 2, output_num_changes |-> 1],
     [initial_num_changes |-> 2, input_num_changes |-> 0, output_num_changes |-> 0]}

ChainShapes == UNION {[1..n -> MergedFilters] : n \in 0..MaxChain}

\* A chain of the given classes whose filters carry the given statistics.
ChainWith(shape, stats) ==
    [i \in 1..Len(shape) |-> [NewFilter(shape[i]) EXCEPT !.filter_stats = stats]]

InitMerge ==
    /\ FilterStart("idle")
    /\ ReplayStart("idle", {1}, {"self"})
    /\ ScoreStart({ZeroPredictor})
    /\ ChainStart
    /\ MergeStart
    /\ FitStart

\* convert_file_and_apply_filters returns the filters of one more shard.
ShardReturnsChain ==
    /\ merge_call = NotMerged
    /\ Len(list_of_filters) < MaxShards
    /\ \E shape \in ChainShapes, stats \in ShardStats :
          list_of_filters' = Append(list_of_filters, ChainWith(shape, stats))
    /\ UNCHANGED <<target_filters, merge_call, report>>
    /\ UNCHANGED <<filterVars, replayVars, chainVars, fitVars>>

\* merge_filter_stats_into(list_of_filters, target_filters) with the target
\* given; the call is kept with its arguments as they were on entry.
MergeInto(target, aliased) ==
    /\ merge_call = NotMerged
    /\ merge_call' =
          [raised |-> merge_filter_stats_into(list_of_filters, target).raised,
           aliased |-> aliased,
           list_on_entry |-> list_of_filters,
           target_on_entry |-> target]
    /\ target_filters' = merge_filter_stats_into(list_of_filters, target).target
    /\ list_of_filters' =
          IF aliased THEN [list_of_filters EXCEPT ![1] = target_filters']
          ELSE list_of_filters
    /\ UNCHANGED report
    /\ UNCHANGED <<filterVars, replayVars, chainVars, fitVars>>

\* The target is a chain of fresh filters.
MergeIntoFresh ==
    \E shape \in ChainShapes : MergeInto(ChainWith(shape, FilterStats), FALSE)

\* The target is the chain of the first shard itself.
MergeIntoFirst ==
    /\ list_of_filters # <<>>
    /\ MergeInto(list_of_filters[1], TRUE)

\* write_filter_stats_to_file: get_stats_from_filters(target_filters)
RenderReport ==
    /\ merge_call.raised = "no"
    /\ report = NotRendered
    /\ report' = get_stats_from_filters(target_filters)
    /\ UNCHANGED <<list_of_filters, target_filters, merge_call>>
    /\ UNCHANGED <<filterVars, replayVars, chainVars, fitVars>>

NextMerge == ShardReturnsChain \/ MergeIntoFresh \/ MergeIntoFirst \/ RenderReport
SpecMerge == InitMerge /\ [][NextMerge]_vars

\* ------------------------------------------------------------ the backtest
InitReplay ==
    /\ FilterStart("idle")
    /\ ReplayStart("load", 1..MaxDuration, {"self", "all"})
    /\ ScoreStart({ZeroPredictor})
    /\ ChainStart
    /\ MergeStart
    /\ FitStart

NumRows(keymap) ==
    Len(keymap[1]) + Len(keymap[2]) + Len(keymap[3])

\* load_data: one more row of a key; the rows of a key are in timestamp order.
LoadRowOf(K, D) ==
    /\ rpc = "load"
    /\ \E k \in K, d \in D :
          /\ NumRows(key_map) < MaxRows
          /\ key_map[k] # <<>> => key_map[k][Len(key_map[k])].value_valid_from <= d
          /\ key_map' = [key_map EXCEPT ![k] = Append(@, Row(k, d))]
    /\ UNCHANGED <<rpc, test_duration, relevant_mode, keys, predictions,
                   all_day_labels, labels, predictor, prediction_stats>>
    /\ UNCHANGED notReplayVars

LoadRow == LoadRowOf(ReplayKeys, EventDates)

\* Predictions kept in a buffer that is not emptied between keys: the rows a
\* call was made with follow the rows of the same call for the key before.
SavePredictionsShared(all_predictions, current_page_predictions) ==
    [i \in 1..Len(testing_timeframes) |->
        Append(all_predictions[i],
            IF all_predictions[i] = <<>> THEN current_page_predictions[i]
            ELSE [n \in 1..Len(current_page_predictions[i]) |->
                     [current_page_predictions[i][n] EXCEPT
                         !.data = all_predictions[i][Len(all_predictions[i])][n].data
                                      \o @]])]

\* for i, prediction in enumerate(current_page_predictions):
\*     predictions[i].append(prediction)
SavePredictions(all_predictions, current_page_predictions) ==
    [i \in 1..Len(testing_timeframes) |->
        Append(all_predictions[i], current_page_predictions[i])]

\* test_model, the body of the loop: the predictions of the key and its day
\* labels are appended to the accumulators.
ReplaySelected(selected) ==
    /\ predictions' =
           SavePredictions(predictions,
               make_prediction(selected.current_data,
                               selected.additional_current_data,
                               test_dates_with_testing_timeframes(test_duration)))
    /\ all_day_labels' =
           Append(all_day_labels, day_labels_of(selected.current_data, test_duration))

\* initialize_keys with randomize = False: the keys of the data in data order
initialize_keys(keymap) == SetToSeq({k \in ReplayKeys : keymap[k] # <<>>})

\* test_model: one pass of the loop over the keys of the data.
ReplayKey ==
    /\ rpc \in {"load", "replay"}
    /\ Len(keys) < Len(initialize_keys(key_map))
    /\ LET key == initialize_keys(key_map)[Len(keys) + 1] IN
          /\ ReplaySelected(select_current_data(relevant_mode, key_map, key))
          /\ keys' = Append(keys, key)
    /\ rpc' = "replay"
    /\ UNCHANGED <<key_map, test_duration, relevant_mode, labels, predictor,
                   prediction_stats>>
    /\ UNCHANGED notReplayVars

\* evaluate_predictions(predictions, all_day_labels, keys, print_output=True),
\* once every key of the data is replayed: if any day label is set the labels
\* are rolled up per horizon and every horizon is scored.
EvaluateRolled(rolled) ==
    IF \E k \in 1..Len(all_day_labels) :
           \E x \in 1..test_duration : all_day_labels[k][x]
    THEN /\ labels' = rolled
         /\ prediction_stats' =
                ScoreTimeframes(rolled, predicted(predictor, predictions), 1, <<>>)
    ELSE /\ labels' = <<>>
         /\ prediction_stats' = NoStats

EvaluatePredictions ==
    /\ rpc = "replay"
    /\ keys = initialize_keys(key_map)
    /\ rpc' = "evaluated"
    /\ EvaluateRolled([i \in 1..Len(testing_timeframes) |->
           aggregate_labels(all_day_labels, testing_timeframes[i], test_duration)])
    /\ UNCHANGED <<key_map, test_duration, relevant_mode, keys, predictions,
                   all_day_labels, predictor>>
    /\ UNCHANGED notReplayVars

NextReplay == LoadRow \/ ReplayKey \/ EvaluatePredictions
SpecReplay == InitReplay /\ [][NextReplay]_vars

\* ------------------------------------------- the backtest of a predictor
\* Short test windows, changes on and just before the days of the window,
\* and the predictors scored on them.
MaxScoreDays == 3
ScoreKeys == {1, 2}
ScoreDates == 0..MaxScoreDays
Predictors ==
    {ZeroPredictor} \cup
    {TablePredictor(days, longer) :
        days \in SUBSET (test_start_date..MaxScoreDays), longer \in BOOLEAN}

InitScore ==
    /\ FilterStart("idle")
    /\ ReplayStart("load", 1..MaxScoreDays, {"self"})
    /\ ScoreStart(Predictors)
    /\ ChainStart
    /\ MergeStart
    /\ FitStart

LoadWindowRow == LoadRowOf(ScoreKeys, ScoreDates)

NextScore == LoadWindowRow \/ ReplayKey \/ EvaluatePredictions
SpecScore == InitScore /\ [][NextScore]_vars

\* ------------------------------------------------ fitting and asking
\* The data is loaded, the random forest is fitted on the rows before the
\* test window, and both predictors are asked about a key on a test date
\* with the history visible on that date.
InitFit ==
    /\ FilterStart("idle")
    /\ ReplayStart("load", 1..MaxScoreDays, {"self"})
    /\ ScoreStart({ZeroPredictor})
    /\ ChainStart
    /\ MergeStart
    /\ FitStart

LoadFitRow == LoadRowOf(ScoreKeys, ScoreDates)

\* fit_model -> predictor.fit -> _fit_classifier(train_data, ...)
FitModel ==
    /\ rpc = "load"
    /\ rpc' = "fitted"
    /\ \E train_data \in TrainFrames(key_map) :
          regressors' = fit_classifier(train_data)
    /\ UNCHANGED <<key_map, test_duration, relevant_mode, keys, predictions,
                   all_day_labels, labels, predictor, prediction_stats, answer>>
    /\ UNCHANGED <<filterVars, chainVars, mergeVars>>

\* make_prediction: predict_timeframe(get_data_until(current_data, day), day,
\* timeframe) put to DummyPredictor, and the random forest's own test of
\* whether it predicts at all.
AskPredictors ==
    /\ rpc \in {"fitted", "asked"}
    /\ rpc' = "asked"
    /\ \E key \in ScoreKeys, i \in 1..Len(testing_timeframes),
          current_day \in test_start_date..(test_start_date + test_duration - 1) :
          LET data == get_data_until(key_map[key], current_day) IN
          answer' = [key |-> key, current_day |-> current_day,
                     timeframe |-> testing_timeframes[i], data |-> data,
                     dummy |-> DummyPredictor_predict_timeframe(
                                   data, current_day, testing_timeframes[i]),
                     should_make_prediction |->
                         should_make_prediction(data, regressors)]
    /\ UNCHANGED <<key_map, test_duration, relevant_mode, keys, predictions,
                   all_day_labels, labels, predictor, prediction_stats,
                   regressors>>
    /\ UNCHANGED <<filterVars, chainVars, mergeVars>>

NextFit == LoadFitRow \/ FitModel \/ AskPredictors
SpecFit == InitFit /\ [][NextFit]_vars

\* ------------------------------------------- the replay in shuffled order
\* test_model(randomize=True): initialize_keys shuffles the keys, so the loop
\* takes them in any order; the predictors answer from their arguments alone.
\* The data changes on the day before the test window and on its two days.
ShuffleModes == {"self", "all"}
ShufflePredictors == {DummyPredictor}
ShuffleDates == (test_start_date - 1)..(test_start_date + 1)
ShuffleDurations == {Cardinality(ShuffleDates) - 1}

InitShuffle ==
    /\ FilterStart("idle")
    /\ ReplayStart("load", ShuffleDurations, ShuffleModes)
    /\ ScoreStart(ShufflePredictors)
    /\ ChainStart
    /\ MergeStart
    /\ FitStart

LoadShuffleRow == LoadRowOf(ReplayKeys, ShuffleDates)

\* The keys of keys[] as a set.
Range(seq) == {seq[i] : i \in 1..Len(seq)}

\* test_model, one pass of the loop over np.random.shuffle(keys): any key of
\* the data not taken yet comes next.
ReplayShuffledKey ==
    /\ rpc \in {"load", "replay"}
    /\ \E key \in Range(initialize_keys(key_map)) \ Range(keys) :
          /\ ReplaySelected(select_current_data(relevant_mode, key_map, key))
          /\ keys' = Append(keys, key)
    /\ rpc' = "replay"
    /\ UNCHANGED <<key_map, test_duration, relevant_mode, labels, predictor,
                   prediction_stats>>
    /\ UNCHANGED notReplayVars

\* evaluate_predictions once the loop has taken every key of the data.
EvaluateShuffled ==
    /\ rpc = "replay"
    /\ Range(keys) = Range(initialize_keys(key_map))
    /\ rpc' = "evaluated"
    /\ EvaluateRolled([i \in 1..Len(testing_timeframes) |->
           aggregate_labels(all_day_labels, testing_timeframes[i], test_duration)])
    /\ UNCHANGED <<key_map, test_duration, relevant_mode, keys, predictions,
                   all_day_labels, predictor>>
    /\ UNCHANGED notReplayVars

NextShuffle == LoadShuffleRow \/ ReplayShuffledKey \/ EvaluateShuffled
SpecShuffle == InitShuffle /\ [][NextShuffle]_vars

\* ------------------------------------------------ claims on the filters
\* The maximal contiguous runs of a list, as a sequence in list order; a run
\* shares (infobox_key, property_name) and, per day, the day of value_valid_from.
RunBoundary(list, i, perDay) ==
    \/ i = 1
    \/ ~SameProperty(list[i - 1], list[i])
    \/ perDay /\ DateOf(list[i - 1].value_valid_from) # DateOf(list[i].value_valid_from)

RunEnd(list, i, perDay) ==
    IF \E j \in (i + 1)..Len(list) : RunBoundary(list, j, perDay)
    THEN (CHOOSE j \in (i + 1)..Len(list) :
             /\ RunBoundary(list, j, perDay)
             /\ \A k \in (i + 1)..(j - 1) : ~RunBoundary(list, k, perDay)) - 1
    ELSE Len(list)

RECURSIVE MaximalRunsFrom(_, _, _)
MaximalRunsFrom(list, i, perDay) ==
    IF i > Len(list) THEN <<>>
    ELSE <<SubSeq(list, i, RunEnd(list, i, perDay))>>
             \o MaximalRunsFrom(list, RunEnd(list, i, perDay) + 1, perDay)

MaximalRuns(list, perDay) == MaximalRunsFrom(list, 1, perDay)

RunsOf(cs) == [i \in 1..Len(cs) |-> cs[i].run]

RECURSIVE Concat(_)
Concat(ss) == IF ss = <<>> THEN <<>> ELSE ss[1] \o Concat(Tail(ss))

Filtered(F) == pc = "filtered" /\ filter \in F

\* C1: AbstractDataFilter.filter hands every maximal run of equal
\* (infobox_key, property_name) of a sorted list, the last one included, to
\* _filter_for_property exactly once and in list order, and returns the
\* concatenation of the results.
C1_EveryRunFilteredOnce ==
    Filtered(RunFilters) =>
        /\ RunsOf(calls) = MaximalRuns(changes, FALSE)
        /\ filtered_changes = ConcatResults(calls)

\* The greatest of the non-null value_valid_to of a and b, None if there is none.
MaxNonNullValidTo(a, b) ==
    IF {a.value_valid_to, b.value_valid_to} \ {NoneValue} = {} THEN NoneValue
    ELSE MaxOfSet({a.value_valid_to, b.value_valid_to} \ {NoneValue})

\* C2: in a revert filter's scan, when the pair (a, b) matches after an event
\* was kept, both are dropped and the last kept event's value_valid_to becomes
\* the greatest non-null value_valid_to of a and b.  Stated for a run of three
\* events whose first is kept and whose last two match.
C2_KeptEventExtendedToMax ==
    Filtered(RevertFilters) =>
        \A c \in {calls[i] : i \in 1..Len(calls)} :
            (/\ Len(c.run) = 3
             /\ ~PairMatches(filter, c.run[1], c.run[2])
             /\ PairMatches(filter, c.run[2], c.run[3]))
            => c.result = <<[c.run[1] EXCEPT !.value_valid_to =
                                MaxNonNullValidTo(c.run[2], c.run[3])]>>

SameDay(run) ==
    \A i \in 1..Len(run) :
        DateOf(run[i].value_valid_from) = DateOf(run[1].value_valid_from)

\* Event i carries a most frequent current_value of the run, and no later
\* event carries one.
LatestMostFrequent(run, i) ==
    /\ \A j \in 1..Len(run) :
          Occurrences(run, run[j].current_value) <= Occurrences(run, run[i].current_value)
    /\ \A j \in (i + 1)..Len(run) :
          Occurrences(run, run[j].current_value) < Occurrences(run, run[i].current_value)

\* C3: for a same-day run of length >= 2 the majority filter returns exactly
\* one event: a copy of the latest event whose current_value is most frequent
\* in the run, valid from the first event's value_valid_from to the last
\* event's value_valid_to, with num_changes the run length; a run of length 1
\* comes back unchanged.
C3_MajorityRepresentative ==
    Filtered({MajorityValuePerDayDataFilter}) =>
        \A c \in {calls[i] : i \in 1..Len(calls)} :
            /\ Len(c.run) = 1 => c.result = c.run
            /\ (Len(c.run) >= 2 /\ SameDay(c.run)) =>
                  \E i \in 1..Len(c.run) :
                      /\ LatestMostFrequent(c.run, i)
                      /\ c.result =
                            <<[c.run[i] EXCEPT
                                 !.value_valid_from = c.run[1].value_valid_from,
                                 !.value_valid_to = c.run[Len(c.run)].value_valid_to,
                                 !.num_changes = Len(c.run)]>>

\* A same-day run whose two values tie, the earlier event starting earlier:
\* the later value wins and the result spans the run.
C3_Witness ==
    /\ Filtered({MajorityValuePerDayDataFilter})
    /\ Len(changes) = 2 /\ SameDay(changes)
    /\ changes[1].current_value # changes[2].current_value
    /\ changes[1].value_valid_from < changes[2].value_valid_from
    /\ Len(filtered_changes) = 1
    /\ filtered_changes[1].current_value = changes[2].current_value
    /\ filtered_changes[1].value_valid_from = changes[1].value_valid_from
    /\ filtered_changes[1].num_changes = 2

\* The events of the maximal runs of at least n events, in list order.
RECURSIVE LongRuns(_, _)
LongRuns(runs, n) ==
    IF runs = <<>> THEN <<>>
    ELSE (IF Len(runs[1]) >= n THEN runs[1] ELSE <<>>) \o LongRuns(Tail(runs), n)

\* C4: MinNumChangesDataFilter(threshold).filter returns exactly the events
\* of the (infobox_key, property_name) runs of length >= threshold, unchanged
\* and in their original order.
C4_KeepsExactlyLongRuns ==
    Filtered(MinNumFilters) =>
        filtered_changes = LongRuns(MaximalRuns(changes, FALSE), filter.param)

PropertyDay(e) == <<e.infobox_key, e.property_name, DateOf(e.value_valid_from)>>

PropertyDays(list) == {PropertyDay(list[i]) : i \in 1..Len(list)}

\* C5: the output of MajorityValuePerDayDataFilter.filter has exactly one
\* event for every (infobox_key, property_name, day of value_valid_from) of
\* the input and none for any other.
C5_OneEventPerPropertyDay ==
    Filtered({MajorityValuePerDayDataFilter}) =>
        /\ PropertyDays(filtered_changes) = PropertyDays(changes)
        /\ \A t \in PropertyDays(changes) :
              Cardinality({i \in 1..Len(filtered_changes) :
                              PropertyDay(filtered_changes[i]) = t}) = 1

\* ------------------------------------------------- claims on the backtest
\* The calls made so far for the key at position k of the replay and
\* horizon index i.
CallsOf(i, k) == {predictions[i][k][n] : n \in 1..Len(predictions[i][k])}

Horizons == 1..Len(testing_timeframes)
Replayed == 1..Len(keys)

Before(rows, day) == SelectSeq(rows, LAMBDA r : r.value_valid_from < day)

Ceil(a, b) == (a + b - 1) \div b

\* C6: the target history handed to predict_timeframe at test date d is
\* exactly the key's rows with value_valid_from < d: none at or after d is in
\* it and none before d is missing.
C6_TargetHistoryIsBeforeTestDate ==
    \A i \in Horizons, k \in Replayed :
        \A call \in CallsOf(i, k) :
            call.data = Before(key_map[keys[k]], call.first_day_to_predict)

\* A call whose key changed on the test date itself and before it: the
\* history has the earlier row and not the one of the day.
C6_Witness ==
    \E i \in Horizons, k \in Replayed :
        \E call \in CallsOf(i, k) :
            /\ Len(call.data) >= 1
            /\ Len(call.data) < Len(key_map[keys[k]])
            /\ \E r \in 1..Len(key_map[keys[k]]) :
                  key_map[keys[k]][r].value_valid_from = call.first_day_to_predict

\* The keys get_relevant_ids names for a key, the key itself left out.
RelatedKeys(key) ==
    {get_relevant_ids(relevant_mode, key_map, key)[i] :
        i \in 1..Len(get_relevant_ids(relevant_mode, key_map, key))} \ {key}

RowsOfKey(rows, key) == SelectSeq(rows, LAMBDA r : r.key = key)

\* C7: the related history of a call at test date d for horizon h holds only
\* rows of the relevant keys other than the target, in timestamp order, and
\* exactly those with value_valid_from < d + h.
C7_RelatedHistoryIsBeforeHorizonEnd ==
    \A k \in Replayed :
        \A related_keys \in {RelatedKeys(keys[k])} :
            \A i \in Horizons :
                \A call \in CallsOf(i, k) :
                    /\ \A n \in 1..(Len(call.related) - 1) :
                          call.related[n].value_valid_from
                              <= call.related[n + 1].value_valid_from
                    /\ \A other \in ReplayKeys :
                          RowsOfKey(call.related, other) =
                              IF other \in related_keys
                              THEN Before(key_map[other],
                                          call.first_day_to_predict + call.timeframe)
                              ELSE <<>>

\* A key with two related keys: one call gets rows of both, in timestamp
\* order against the order of the keys, another call of the same key gets
\* only one of them, the other row lying at or after the end of its horizon.
C7_Witness ==
    \E i \in Horizons, j \in Horizons, k \in Replayed :
        \E c \in CallsOf(i, k), e \in CallsOf(j, k) :
            /\ Len(c.related) = 2
            /\ c.related[1].key > c.related[2].key
            /\ Len(e.related) = 1
            /\ e.first_day_to_predict + e.timeframe <= c.related[2].value_valid_from

\* C8: over a window of L test dates the engine calls predict_timeframe for
\* horizon h on the day with index t iff t mod h = 0, in date order: a key
\* gets ceil(L / h) calls for h, the k-th with as-of date start + k*h and
\* horizon end date start + k*h + h.
C8_HorizonCadence ==
    \A i \in 1..Len(testing_timeframes), k \in 1..Len(keys) :
        LET h == testing_timeframes[i]
            made == predictions[i][k]
        IN  /\ Len(made) = Ceil(test_duration, h)
            /\ \A n \in 1..Len(made) :
                  /\ made[n].timeframe = h
                  /\ made[n].first_day_to_predict = test_start_date + (n - 1) * h
                  /\ made[n].first_day_to_predict < test_start_date + test_duration
                  /\ made[n].prediction_end_date = test_start_date + (n - 1) * h + h

\* A window of 8 days: the week horizon was called on day 0 and on day 7,
\* the day horizon on all 8 days, month and year once.
C8_Witness ==
    /\ test_duration = 8
    /\ Len(keys) >= 1
    /\ Len(predictions[1][1]) = 8
    /\ Len(predictions[2][1]) = 2
    /\ predictions[2][1][2].first_day_to_predict = test_start_date + 7
    /\ Len(predictions[3][1]) = 1
    /\ Len(predictions[4][1]) = 1

Min(a, b) == IF a < b THEN a ELSE b

\* C9: aggregate_labels with horizon 1 returns the day labels unchanged; for
\* a label row of length L and a horizon h the roll-up has ceil(L / h)
\* entries, the k-th (from 0) the OR of days k*h .. min((k+1)*h, L) - 1.
C9_RollUpIsBucketwiseOr ==
    (rpc = "evaluated" /\ labels # <<>>) =>
        \A i \in 1..Len(testing_timeframes), k \in 1..Len(keys) :
            LET h == testing_timeframes[i]
                row == all_day_labels[k]
                rolled == labels[i][k]
            IN  /\ h = 1 => rolled = row
                /\ Len(rolled) = Ceil(test_duration, h)
                /\ \A b \in 1..Len(rolled) :
                      rolled[b] =
                          \E t \in ((b - 1) * h)..(Min(b * h, test_duration) - 1) :
                              row[t + 1]

\* 8 days rolled up by week: a change on day 7 only sets the second, partial
\* bucket.
C9_Witness ==
    /\ rpc = "evaluated" /\ labels # <<>>
    /\ test_duration = 8
    /\ \E k \in 1..Len(keys) :
          /\ all_day_labels[k][8]
          /\ ~all_day_labels[k][1]
          /\ labels[2][k] = <<FALSE, TRUE>>
          /\ labels[3][k] = <<TRUE>>

\* C10: for every key and horizon the prediction vector and the rolled-up
\* label vector have the same length, and entry k of both is about the same
\* bucket: the prediction is the call of day k*h, the label the OR of the day
\* labels of the test dates from that call's as-of date up to its end date.
C10_PredictionsAlignWithLabels ==
    (rpc = "evaluated" /\ labels # <<>>) =>
        \A i \in 1..Len(testing_timeframes), k \in 1..Len(keys) :
            /\ Len(predictions[i][k]) = Len(labels[i][k])
            /\ \A b \in 1..Len(predictions[i][k]) :
                  LET call == predictions[i][k][b]
                  IN  /\ call.first_day_to_predict =
                             test_date((b - 1) * testing_timeframes[i])
                      /\ labels[i][k][b] =
                             \E x \in 1..test_duration :
                                 /\ call.first_day_to_predict <= test_dates(test_duration)[x]
                                 /\ test_dates(test_duration)[x] < call.prediction_end_date
                                 /\ all_day_labels[k][x]

\* Two keys over 8 days: the week vectors have two entries each; one key
\* changed on day 0, the other on day 7.
C10_Witness ==
    /\ rpc = "evaluated" /\ labels # <<>>
    /\ test_duration = 8
    /\ Len(keys) >= 2
    /\ Len(predictions[2][1]) = 2 /\ Len(predictions[2][2]) = 2
    /\ \E k \in 1..2, m \in 1..2 :
          labels[2][k] = <<TRUE, FALSE>> /\ labels[2][m] = <<FALSE, TRUE>>

\* ------------------------------------------- claims on scoring a backtest
\* The positive class is the second of the two classes False, True.
PositiveClass == 2
IsRatio(r, num, den) == r.num * den = num * r.den

\* The end-to-end scenario: a window of 3 days, one key whose only change is
\* on the second day, a predictor answering True only for horizon 1 on the
\* first and the second day.
EndToEndScenario ==
    /\ rpc = "evaluated"
    /\ test_duration = 3
    /\ \E k \in ScoreKeys :
          /\ keys = <<k>>
          /\ key_map[k] = <<Row(k, test_start_date + 1)>>
    /\ predictor = TablePredictor({test_start_date, test_start_date + 1}, FALSE)

ScenarioLabels ==
    /\ all_day_labels = << <<FALSE, TRUE, FALSE>> >>
    /\ aggregate_labels(all_day_labels, 3, test_duration) = << <<TRUE>> >>
    /\ prediction_stats.raised = "no"

\* C11 as stated: in the end-to-end scenario the day labels are [F,T,F], the
\* horizon-3 roll-up is [T] and the day horizon is scored with positive-class
\* precision 1/1 and recall 1/1.
C11_ScenarioPrecisionOne ==
    EndToEndScenario =>
        /\ ScenarioLabels
        /\ IsRatio(prediction_stats.stats[1][1][PositiveClass], 1, 1)
        /\ IsRatio(prediction_stats.stats[1][2][PositiveClass], 1, 1)

\* C11 amended: in the end-to-end scenario the day labels are [F,T,F], the
\* horizon-3 roll-up is [T] and the day horizon is scored with positive-class
\* precision 1/2 (two positive answers, one of them right) and recall 1/1.
C11_ScenarioPrecisionHalf ==
    EndToEndScenario =>
        /\ ScenarioLabels
        /\ IsRatio(prediction_stats.stats[1][1][PositiveClass], 1, 2)
        /\ IsRatio(prediction_stats.stats[1][2][PositiveClass], 1, 1)

C11_Witness ==
    /\ EndToEndScenario
    /\ Len(prediction_stats.stats) = Len(testing_timeframes)
    /\ prediction_stats.stats[1][4] = <<2, 1>>

\* ------------------------------------------- claims on filter statistics
ChainRan == pc \in {"filtered", "refiltered"}

\* C12: a call of filter() on an instance whose statistics are not unset
\* prints the warning, whatever the class of the filter, and overwrites the
\* statistics (they hold the call's initial count unless reset since); a
\* call on an instance with unset statistics (fresh or reset) prints no
\* warning.
C12_ReuseWithoutResetWarns ==
    ChainRan =>
        \A i \in 1..Len(log) :
            /\ log[i].warned <=>
                   log[i].stats_on_entry.initial_num_changes # INITIAL_STATS_VALUE
            /\ chain[i].filter_stats # FilterStats =>
                   chain[i].filter_stats.initial_num_changes
                       = log[i].initial_num_changes

\* C15: after filter(changes, initial_num_changes) returned R, the filter's
\* statistics are the initial count passed, len(changes) and len(R), for
\* every class of filter at every position of a chain.
C15_StatsDescribeTheCall ==
    ChainRan =>
        \A i \in 1..Len(log) :
            chain[i].filter_stats # FilterStats =>
                /\ chain[i].filter_stats.initial_num_changes
                       = log[i].initial_num_changes
                /\ chain[i].filter_stats.input_num_changes = Len(log[i].input)
                /\ chain[i].filter_stats.output_num_changes = Len(log[i].output)

\* C16: after filter_changes_with(changes, filters) every filter of the
\* chain reports the length of the original list as initial_num_changes, and
\* every filter was called exactly once, in chain order, on what its
\* predecessor returned (the first on the original list), the result being
\* what the last returned; the empty chain returns the list unchanged.
C16_ChainSharesInitialAndRunsInOrder ==
    ChainRan =>
        /\ Len(log) = Len(chain)
        /\ Len(chain) = 0 => filtered_changes = changes
        /\ Len(chain) > 0 => filtered_changes = log[Len(chain)].output
        /\ \A i \in 1..Len(log) :
              /\ log[i].name = chain[i].name
              /\ log[i].initial_num_changes = Len(changes)
              /\ chain[i].filter_stats # FilterStats =>
                     chain[i].filter_stats.initial_num_changes = Len(changes)
              /\ log[i].input = IF i = 1 THEN changes ELSE log[i - 1].output

\* A chain of two fresh filters on a list of at least two changes, the first
\* of which returned less than it got.
C16_Witness ==
    /\ pc = "filtered"
    /\ Len(chain) = 2
    /\ Len(changes) >= 2
    /\ log[1].output # <<>>
    /\ Len(log[1].output) < Len(changes)
    /\ log[2].input = log[1].output
    /\ chain[1].filter_stats.initial_num_changes = Len(changes)
    /\ chain[2].filter_stats.initial_num_changes = Len(changes)

\* ---------------------------------- claims on merging and reporting stats
MergeCalled == merge_call.raised # "not called"

\* The chain has the classes of the target, in the same order and number.
SameOrder(filters, target) ==
    /\ Len(filters) = Len(target)
    /\ \A i \in 1..Len(filters) : filters[i].name = target[i].name

\* C13: merge_filter_stats_into raises ValueError whenever some chain of
\* list_of_filters (the first one too) does not have the classes of
\* target_filters in the same order, or is longer or shorter than it.
C13_MismatchedOrderRaisesValueError ==
    MergeCalled =>
        ((\E j \in 1..Len(merge_call.list_on_entry) :
              ~SameOrder(merge_call.list_on_entry[j], merge_call.target_on_entry))
         => merge_call.raised = "ValueError")

RECURSIVE SumStats(_, _, _)
SumStats(list, idx, j) ==
    IF j > Len(list)
    THEN [initial_num_changes |-> 0, input_num_changes |-> 0, output_num_changes |-> 0]
    ELSE add_stats(list[j][idx].filter_stats, SumStats(list, idx, j + 1))

\* C14: after merge_filter_stats_into over chains of the same order as the
\* target, the statistics of every target filter are the element-wise sum
\* of the statistics of the filter at its position over all chains of
\* list_of_filters.
C14_TargetHoldsSumOverAllChains ==
    (/\ MergeCalled
     /\ Len(merge_call.list_on_entry) > 0
     /\ \A j \in 1..Len(merge_call.list_on_entry) :
           SameOrder(merge_call.list_on_entry[j], merge_call.target_on_entry))
    => /\ merge_call.raised = "no"
       /\ \A idx \in 1..Len(target_filters) :
             target_filters[idx].filter_stats
                 = SumStats(merge_call.list_on_entry, idx, 1)

\* C17: get_stats_from_filters renders one block per filter in chain order,
\* preceded by the warning exactly if some filter's initial_num_changes
\* differs from the first filter's; the empty chain renders the empty string.
C17_ReportHasEveryBlockAndWarnsOnMismatch ==
    report.raised # "not called" =>
        /\ report.raised = "no"
        /\ Len(report.blocks) = Len(target_filters)
        /\ \A i \in 1..Len(target_filters) :
              /\ report.blocks[i].name = target_filters[i].name
              /\ report.blocks[i].initial_num_changes
                     = target_filters[i].filter_stats.initial_num_changes
        /\ report.warning <=>
              \E i \in 1..Len(target_filters) :
                  target_filters[i].filter_stats.initial_num_changes
                      # target_filters[1].filter_stats.initial_num_changes
        /\ Len(target_filters) = 0 => report = EmptyReport

\* ------------------------------------- claims on degenerate aggregation
NoPositiveLabel ==
    \A k \in 1..Len(all_day_labels) :
        \A x \in 1..Len(all_day_labels[k]) : ~all_day_labels[k][x]

\* The statistics of one horizon report precision 0 and recall 0 for the
\* positive class.
ReportsZeroForPositive(stats) ==
    /\ Len(stats[1]) = 2
    /\ stats[1][PositiveClass].num = 0
    /\ stats[2][PositiveClass].num = 0

\* C18: evaluating a backtest never raises because a class is absent from
\* the labels or from the predictions, and when no day label of any key is
\* set every horizon is reported with positive-class precision and recall 0.
C18_AbsentClassNeverRaises ==
    rpc = "evaluated" =>
        /\ prediction_stats.raised = "no"
        /\ (keys # <<>> /\ NoPositiveLabel) =>
              /\ Len(prediction_stats.stats) = Len(testing_timeframes)
              /\ \A i \in 1..Len(prediction_stats.stats) :
                    ReportsZeroForPositive(prediction_stats.stats[i])

\* ------------------------------------------------ claims on abstaining
Asked == rpc = "asked"

\* The number of rows of a key before the test window.
TrainingEvents(k) == Len(train_rows(key_map, k))

\* C19: DummyPredictor.predict_timeframe answers False for every visible
\* history with fewer than 2 events; after the fit no key with at most 1
\* training event has a model; and _should_make_prediction answers False
\* when the visible history is empty or its key has no fitted model.
C19_PredictorsAbstain ==
    /\ rpc \in {"fitted", "asked"} =>
          \A k \in ReplayKeys : TrainingEvents(k) <= 1 => k \notin regressors
    /\ Asked =>
          /\ Len(answer.data) < 2 => answer.dummy = FALSE
          /\ (answer.data = <<>> \/ answer.key \notin regressors) =>
                 answer.should_make_prediction = FALSE

\* A key with one event is asked about while another key has a model; both
\* predictors abstain.
C19_Witness ==
    /\ Asked
    /\ Len(answer.data) = 1
    /\ TrainingEvents(answer.key) = 1
    /\ regressors # {}
    /\ answer.key \notin regressors
    /\ ~answer.dummy
    /\ ~answer.should_make_prediction

\* ------------------------------------------------ claims on read-only flow
\* C20: after filter() returns, every event object of the input list has
\* the field values it had before the call.
C20_InputEventsUnchanged ==
    pc = "filtered" =>
        \A i \in 1..Len(calls) : calls[i].run_after = calls[i].run

\* ------------------------------------------------ claims on the revert scan
\* The first positions of the pairs a left-to-right scan without overlap
\* matches from position i on.
RECURSIVE MatchedPairStarts(_, _, _)
MatchedPairStarts(f, run, i) ==
    IF i >= Len(run) THEN {}
    ELSE IF PairMatches(f, run[i], run[i + 1])
         THEN {i} \cup MatchedPairStarts(f, run, i + 2)
         ELSE MatchedPairStarts(f, run, i + 1)

\* The positions no matched pair consumes, in run order: position i is kept
\* unless it starts a matched pair, which consumes i and i + 1.
RECURSIVE KeptPositions(_, _, _)
KeptPositions(f, run, i) ==
    IF i > Len(run) THEN <<>>
    ELSE IF i < Len(run) /\ PairMatches(f, run[i], run[i + 1])
         THEN KeptPositions(f, run, i + 2)
         ELSE <<i>> \o KeptPositions(f, run, i + 1)

\* The result is the events of the run at the positions given, in run order:
\* the objects of the run themselves, as they are once the call returns, so
\* equal to the events handed in but for value_valid_to.
IsRunAt(c, positions) ==
    /\ Len(c.result) = Len(positions)
    /\ \A j \in 1..Len(positions) :
          /\ c.result[j] = c.run_after[positions[j]]
          /\ c.result[j] =
                 [c.run[positions[j]] EXCEPT
                     !.value_valid_to = c.result[j].value_valid_to]

\* C21: a revert filter's scan of one run examines pairs left to right
\* without overlap: the output is the events no matched pair consumed, in
\* original order (the last event among them when no pair consumed it), its
\* length is the run length minus twice the number of matched pairs, and a
\* run that is exactly one matching pair yields the empty list.
C21_ScanDropsDisjointPairs ==
    Filtered(RevertFilters) =>
        \A i \in 1..Len(calls) :
            LET c == calls[i] IN
            /\ IsRunAt(c, KeptPositions(filter, c.run, 1))
            /\ Len(c.result) =
                   Len(c.run) - 2 * Cardinality(MatchedPairStarts(filter, c.run, 1))
            /\ Len(c.run) \in Range(KeptPositions(filter, c.run, 1))
                   => c.result[Len(c.result)] = c.run_after[Len(c.run)]
            /\ (Len(c.run) = 2 /\ PairMatches(filter, c.run[1], c.run[2]))
                   => c.result = <<>>

\* A run of three events whose first two match: both are dropped and the
\* last event, which no pair consumed, is what comes back.
C21_Witness ==
    /\ Filtered(RevertFilters)
    /\ Len(calls) = 1
    /\ Len(calls[1].run) = 3
    /\ PairMatches(filter, calls[1].run[1], calls[1].run[2])
    /\ PairMatches(filter, calls[1].run[2], calls[1].run[3])
    /\ calls[1].result = <<calls[1].run[3]>>

\* ------------------------------------------------ claims on the key order
\* The accumulators of a shard: the loop of test_model run on the keys ks in
\* order, from empty accumulators.
RECURSIVE ReplayShard(_)
ReplayShard(ks) ==
    IF ks = <<>> THEN [predictions |-> NoPredictions, all_day_labels |-> <<>>]
    ELSE LET before == ReplayShard(SubSeq(ks, 1, Len(ks) - 1))
             selected == select_current_data(relevant_mode, key_map, ks[Len(ks)])
         IN  [predictions |->
                  SavePredictions(before.predictions,
                      make_prediction(selected.current_data,
                                      selected.additional_current_data,
                                      test_dates_with_testing_timeframes(test_duration))),
              all_day_labels |->
                  Append(before.all_day_labels,
                         day_labels_of(selected.current_data, test_duration))]

\* The accumulators of two shards, concatenated.
Concatenated(a, b) ==
    [predictions |->
         [i \in 1..Len(testing_timeframes) |-> a.predictions[i] \o b.predictions[i]],
     all_day_labels |-> a.all_day_labels \o b.all_day_labels]

\* The counts of true/false positives and negatives of horizon i.
Confusion(acc, i) ==
    LET y_true == flatten(aggregate_labels(acc.all_day_labels,
                                           testing_timeframes[i], test_duration))
        y_hat == flatten(predicted(predictor, acc.predictions)[i])
        Count(t, h) == Cardinality({j \in 1..Len(y_true) :
                                       y_true[j] = t /\ y_hat[j] = h})
    IN  [tp |-> Count(TRUE, TRUE), fp |-> Count(FALSE, TRUE),
         fn |-> Count(TRUE, FALSE), tn |-> Count(FALSE, FALSE)]

\* What evaluate_predictions returns for the accumulators acc.
StatsOf(acc) ==
    IF \E k \in 1..Len(acc.all_day_labels) :
           \E x \in 1..test_duration : acc.all_day_labels[k][x]
    THEN ScoreTimeframes(
             [i \in 1..Len(testing_timeframes) |->
                 aggregate_labels(acc.all_day_labels, testing_timeframes[i],
                                  test_duration)],
             predicted(predictor, acc.predictions), 1, <<>>)
    ELSE NoStats

Accumulators == [predictions |-> predictions, all_day_labels |-> all_day_labels]
DataKeys == Range(initialize_keys(key_map))
InDataOrder == ReplayShard(initialize_keys(key_map))

C23_FailedMergeLeavesTargetUnchanged ==
    merge_call.raised = "ValueError" =>
        target_filters = merge_call.target_on_entry

\* ------------------------------------------------ claims on rendering a run chain
\* C24: rendering the report of a chain that filter_changes_with has run
\* never raises, also when the original list is empty or a filter of the
\* chain received no events.
C24_ReportOfRunChainNeverRaises ==
    (report.raised # "not called" /\ \A i \in 1..Len(chain) : chain[i].filter_stats # FilterStats)
        => report.raised = "no"

\* ------------------------------------------------ claims on the order kept
\* The list is sorted by (infobox_key, property_name, value_valid_from), and
\* within a property no event's value_valid_to exceeds (or, being open,
\* runs past) the value_valid_from of the next.
InOrder(a, b) ==
    \/ a.infobox_key < b.infobox_key
    \/ a.infobox_key = b.infobox_key /\ a.property_name < b.property_name
    \/ SameProperty(a, b) /\ a.value_valid_from <= b.value_valid_from

SortedWithoutOverlap(list) ==
    \A i \in 1..(Len(list) - 1) :
        /\ InOrder(list[i], list[i + 1])
        /\ SameProperty(list[i], list[i + 1]) =>
              /\ list[i].value_valid_to # NoneValue
              /\ list[i].value_valid_to <= list[i + 1].value_valid_from

\* C25: if the list handed to the revert, majority-per-day or
\* minimum-activity filter is sorted and free of overlap, so is the list the
\* filter returns.
C25_FiltersKeepListSorted ==
    (Filtered(RunFilters \cup {MajorityValuePerDayDataFilter})
        /\ SortedWithoutOverlap(changes))
    => SortedWithoutOverlap(filtered_changes)

\* A revert filter keeps the first event, drops the pair after it and keeps
\* the fourth: the first event comes back with its interval extended, still
\* ending no later than the fourth begins.
C25_Witness ==
    /\ Filtered(RevertFilters)
    /\ Len(changes) = 5
    /\ SortedWithoutOverlap(changes)
    /\ Len(filtered_changes) = 2
    /\ filtered_changes[1].value_valid_to > changes[1].value_valid_to
    /\ filtered_changes[2] = changes[4]
    /\ filtered_changes[1].value_valid_to = filtered_changes[2].value_valid_from

====
